---- MODULE Spec2Model ----
(***************************************************************************)
(* Entwine chunk storage and read path.                                    *)
(*                                                                         *)
(*   SpecChunk  - build-side chunk data (tree/branches/chunk.cpp): entry   *)
(*                lookup, population, serialization to the blob store and  *)
(*                reconstruction through the factories.                    *)
(*   SpecReader - read-side ChunkReader (reader/chunk-reader.cpp): the     *)
(*                tick-sorted point array and candidates().                *)
(*   SpecQuery  - Query / BaseQuery (reader/query.cpp) over a built index. *)
(***************************************************************************)
EXTENDS Integers, Sequences, FiniteSets, TLC

VARIABLES
    \* ---- build-side chunk (chunk.cpp) ----
    stage,      \* "build" | "written": position in the chunk's life cycle
    chunk,      \* the ChunkData object: type, m_id, m_maxPoints, m_entries, m_data
    source,     \* the blob store: name -> bytes
    written,    \* log of the write(source, begin, end) calls, in call order
    ids,        \* the ids vector handed to finalize
    made,       \* outcome of the last ChunkDataFactory::create / ChunkReader::create
    fault,      \* "none" | "assert" | "ub": a failed assert (or what NDEBUG leaves of it)
    finalized,  \* the finalize call made, if any: start and chunkPoints
    \* ---- read-side ChunkReader (chunk-reader.cpp) ----
    unpacked,   \* the unpacked payload handed to the constructor: points in blob order
    reader,     \* the ChunkReader: m_depth, m_points (built = FALSE before construction)
    range,      \* the QueryRange of the last candidates() call
    \* ---- Query (query.cpp) ----
    phase,      \* "build" | "query": the index is built, then queried
    pending,    \* points still to be added to the index
    store,      \* the built index: base tubes and cold chunks
    query,      \* the BaseQuery/Query members
    buffer,     \* the caller's buffer of the last next(buffer) call
    emitted,    \* every record appended to a caller buffer so far, in order
    thrown,     \* the exception a next call ended with ("" for none)
    lastCall,   \* the last Query::next call: the buffer passed and what it returned
    \* ---- a Chunk shared by builder threads (chunk.cpp) ----
    shared,     \* the Chunk: m_threshold and its SparseChunkData (m_mutex, m_entries)
    threads,    \* each thread's position inside SparseChunkData::getEntry
    history     \* every SparseEntry constructed and every reference returned

chunkVars == <<stage, chunk, source, written, ids, made, fault, finalized>>

readerVars == <<unpacked, reader, range>>

queryVars == <<phase, pending, store, query, buffer, emitted, thrown, lastCall>>

entryVars == <<shared, threads, history>>

vars == <<chunkVars, readerVars, queryVars, entryVars>>

----------------------------------------------------------------------------
\* Bounds of the model.

\* Entries a chunk under construction may get (getEntry creations / populated slots).
MaxEntries == 2

\* Largest chunk capacity (m_maxPoints) explored.
MaxChunkPoints == 3

----------------------------------------------------------------------------
\* Schema, Point, Compression: collaborators of chunk.cpp.

\* enum ChunkType: the marker byte values.
Sparse == 0
Contiguous == 1

\* Point::emptyCoord(): the sentinel coordinate of an unpopulated slot.
EmptyCoord == 255

\* The native schema: one byte-sized field per dimension.
SchemaDims == <<"X", "Y", "Intensity">>

\* Schema::pointSize()
PointSize == Len(SchemaDims)

\* makeSparse(schema).pointSize(): an 8-byte EntryId in front of the native dims.
SparsePointSize == 8 + PointSize

\* view.getFieldAs<double>(X / Y) on a native record.
FieldX(rec) == rec[1]
FieldY(rec) == rec[2]

\* Point::exists(x, y)
PointExists(x, y) == x # EmptyCoord \/ y # EmptyCoord

\* A null Point pointer is <<>>, a Point is <<x, y>>.
NullPoint == <<>>

\* Compression::compress: an opaque, length-preserving byte codec.
Compress(bytes) == [i \in 1..Len(bytes) |-> (bytes[i] + 1) % 256]

\* Compression::decompress(data, schema, decompressedSize): <<>> on a size
\* mismatch, else <<bytes>>.
Decompress(data, size) ==
    IF Len(data) # size THEN <<>>
    ELSE << [i \in 1..Len(data) |-> (data[i] + 255) % 256] >>

----------------------------------------------------------------------------
\* Byte-level helpers.

\* memcpy of a uint64 into 8 bytes, little-endian (values below 2^24).
U64Bytes(n) ==
    [i \in 1..8 |-> IF i = 1 THEN n % 256
                    ELSE IF i = 2 THEN (n \div 256) % 256
                    ELSE IF i = 3 THEN (n \div 65536) % 256
                    ELSE 0]

\* memcpy of 8 little-endian bytes into a uint64; a value with a high byte
\* set is kept only as "at least 2^24".
U64Value(b) ==
    b[1] + 256 * b[2] + 65536 * b[3]
      + (IF \E i \in 4..8 : b[i] # 0 THEN 16777216 ELSE 0)

SetMin(S) == CHOOSE m \in S : \A k \in S : m <= k

RECURSIVE DecimalDigits(_)
DecimalDigits(n) ==
    IF n < 10 THEN <<n>> ELSE Append(DecimalDigits(n \div 10), n % 10)

\* std::to_string(begin): the decimal digits of begin.
StdToString(n) == DecimalDigits(n)

\* source.put(name, bytes)
SourcePut(src, name, bytes) ==
    [n \in DOMAIN src \cup {name} |-> IF n = name THEN bytes ELSE src[n]]

----------------------------------------------------------------------------
\* ChunkData

\* ChunkData::endId
EndId(c) == c.m_id + c.m_maxPoints

\* ChunkData::normalize: the two asserts hold.
InRange(c, rawIndex) == rawIndex >= c.m_id /\ rawIndex < c.m_id + c.m_maxPoints

\* ChunkData::normalize
Normalize(c, rawIndex) == rawIndex - c.m_id

\* ContiguousChunkData::makeEmpty: every slot's X and Y are emptyCoord.
EmptyRecord == [i \in 1..PointSize |-> IF i <= 2 THEN EmptyCoord ELSE 0]

RECURSIVE Repeat(_, _)
Repeat(rec, n) == IF n = 0 THEN <<>> ELSE rec \o Repeat(rec, n - 1)

\* SparseChunkData(schema, id, maxPoints)
NewSparse(id, maxPoints) ==
    [type |-> Sparse, m_id |-> id, m_maxPoints |-> maxPoints,
     m_entries |-> << >>, m_data |-> << >>]

\* ContiguousChunkData(schema, id, maxPoints)
NewContiguous(id, maxPoints) ==
    [type |-> Contiguous, m_id |-> id, m_maxPoints |-> maxPoints,
     m_entries |-> [i \in 0..(maxPoints - 1) |-> NullPoint],
     m_data |-> Repeat(EmptyRecord, maxPoints)]

\* Chunk::Chunk(schema, id, maxPoints): Sparse for a non-zero id.
NewChunk(id, maxPoints) ==
    IF id # 0 THEN NewSparse(id, maxPoints) ELSE NewContiguous(id, maxPoints)

\* The byte slice of slot i (0-based) in a contiguous buffer.
SlotBytes(data, i) == SubSeq(data, i * PointSize + 1, (i + 1) * PointSize)

\* Writing a native record into slot i of a contiguous buffer.
SetSlot(data, i, rec) ==
    [j \in 1..Len(data) |->
        IF j > i * PointSize /\ j <= (i + 1) * PointSize
        THEN rec[j - i * PointSize] ELSE data[j]]

\* SparseChunkData::SparseEntry(schema): zeroed bytes, Entry with a null point.
NewSparseEntry == [data |-> [i \in 1..PointSize |-> 0], point |-> NullPoint]

\* SparseChunkData::SparseEntry(schema, pos): copied bytes, Point(x, y) read back.
ReadSparseEntry(rec) == [data |-> rec, point |-> <<FieldX(rec), FieldY(rec)>>]

\* m_entries.emplace(key, value): no effect when the key is present.
Emplace(entries, key, value) ==
    IF key \in DOMAIN entries THEN entries
    ELSE [k \in DOMAIN entries \cup {key} |-> IF k = key THEN value ELSE entries[k]]

\* SparseChunkData::getEntry: find-or-insert under the chunk mutex.
SparseGetEntry(c, rawIndex) ==
    [c EXCEPT !.m_entries = Emplace(c.m_entries, rawIndex, NewSparseEntry)]

\* Entry population by the builder (CAS null -> Point, then the raw bytes are
\* written through Entry::data() under the entry mutex); a taken slot is left.
SparsePopulate(c, rawIndex, rec) ==
    LET got == SparseGetEntry(c, rawIndex)
    IN  IF got.m_entries[rawIndex].point # NullPoint THEN got
        ELSE [got EXCEPT !.m_entries[rawIndex] =
                  [data |-> rec, point |-> <<FieldX(rec), FieldY(rec)>>]]

\* ContiguousChunkData::getEntry: the entry at normalize(rawIndex).
ContiguousGetEntry(c, rawIndex) == c.m_entries[Normalize(c, rawIndex)]

\* Entry population of a contiguous slot (same protocol as above).
ContiguousPopulate(c, rawIndex, rec) ==
    LET i == Normalize(c, rawIndex)
    IN  IF ContiguousGetEntry(c, rawIndex) # NullPoint THEN c
        ELSE [c EXCEPT !.m_entries[i] = <<FieldX(rec), FieldY(rec)>>,
                       !.m_data = SetSlot(c.m_data, i, rec)]

\* The key range with upper_bound(begin) as its start: begin itself is left out.
SquashKeysOpenBegin(c, begin, end) ==
    {k \in DOMAIN c.m_entries : k > begin /\ k <= end - 1}

\* Keys between m_entries.lower_bound(begin) and m_entries.upper_bound(end - 1).
SquashKeys(c, begin, end) ==
    {k \in DOMAIN c.m_entries : k >= begin /\ k <= end - 1}

RECURSIVE SquashFrom(_, _)
SquashFrom(c, keys) ==
    IF keys = {} THEN <<>>
    ELSE LET k == SetMin(keys)
         IN  U64Bytes(k) \o c.m_entries[k].data \o SquashFrom(c, keys \ {k})

\* SparseChunkData::squash: 8-byte id + native bytes per entry, in key order.
Squash(c, begin, end) == SquashFrom(c, SquashKeys(c, begin, end))

\* SparseChunkData::pushNumPoints
PushNumPoints(data, numPoints) == data \o U64Bytes(numPoints)

\* SparseChunkData::write: the blob put under to_string(begin).
SparseBlob(c, begin, end) ==
    Append(PushNumPoints(Compress(Squash(c, begin, end)),
                         Cardinality(DOMAIN c.m_entries)),
           Sparse)

\* ContiguousChunkData::write: the blob put under to_string(begin).
ContiguousBlob(c, begin, end) ==
    Append(Compress(SubSeq(c.m_data,
                           Normalize(c, begin) * PointSize + 1,
                           Normalize(c, begin) * PointSize + (end - begin) * PointSize)),
           Contiguous)

\* ChunkData::write (virtual)
WriteBlob(c, begin, end) ==
    IF c.type = Sparse THEN SparseBlob(c, begin, end) ELSE ContiguousBlob(c, begin, end)

----------------------------------------------------------------------------
\* Reconstruction from a blob.

\* A constructor or factory outcome: the exception text (or "") and the object.
\* ctor names the constructor the factory dispatched to ("" when it did not).
TypeName(type) == IF type = Sparse THEN "Sparse" ELSE "Contiguous"
Thrown(msg, ctor) == [error |-> msg, ctor |-> ctor, object |-> << >>]
Built(obj) == [error |-> "", ctor |-> TypeName(obj.type), object |-> <<obj>>]

\* getChunkType without the final throw: every marker other than Sparse is
\* taken for Contiguous.
GetChunkTypeLenient(data) ==
    IF data # << >>
    THEN [error |-> "",
          type |-> IF data[Len(data)] = Sparse THEN Sparse ELSE Contiguous,
          data |-> SubSeq(data, 1, Len(data) - 1)]
    ELSE [error |-> "Invalid chunk data detected", type |-> Sparse, data |-> data]

\* getChunkType: pops the trailing marker byte and classifies it.
GetChunkType(data) ==
    IF data # << >>
    THEN LET marker == data[Len(data)]
             rest == SubSeq(data, 1, Len(data) - 1)
         IN  IF marker = Sparse THEN [error |-> "", type |-> Sparse, data |-> rest]
             ELSE IF marker = Contiguous
                  THEN [error |-> "", type |-> Contiguous, data |-> rest]
                  ELSE [error |-> "Invalid chunk type detected",
                        type |-> marker, data |-> rest]
    ELSE [error |-> "Invalid chunk data detected", type |-> Sparse, data |-> data]

\* The records of a decompressed celled buffer, one per sparsePointSize stride.
RECURSIVE ReadCelled(_, _, _)
ReadCelled(squashed, offset, entries) ==
    IF offset >= Len(squashed) THEN entries
    ELSE LET key == U64Value(SubSeq(squashed, offset + 1, offset + 8))
             rec == SubSeq(squashed, offset + 9, offset + SparsePointSize)
         IN  ReadCelled(squashed, offset + SparsePointSize,
                        Emplace(entries, key, rec))

\* SparseChunkData(schema, id, maxPoints, compressedData), popNumPoints included.
SparseFromBytes(id, maxPoints, data) ==
    IF Len(data) < 8 THEN Thrown("Invalid serialized sparse chunk", "Sparse")
    ELSE LET numPoints == U64Value(SubSeq(data, Len(data) - 7, Len(data)))
             body == SubSeq(data, 1, Len(data) - 8)
             squashed == Decompress(body, numPoints * SparsePointSize)
         IN  IF squashed = << >> THEN Thrown("Decompression failure", "Sparse")
             ELSE LET recs == ReadCelled(squashed[1], 0, << >>)
                  IN  Built([type |-> Sparse, m_id |-> id, m_maxPoints |-> maxPoints,
                             m_entries |-> [k \in DOMAIN recs |-> ReadSparseEntry(recs[k])],
                             m_data |-> << >>])

\* The Entry of slot i with the existence test left out: a Point for every slot.
ContiguousEntryAtAlways(data, i) ==
    <<FieldX(SlotBytes(data, i)), FieldY(SlotBytes(data, i))>>

\* The Entry built for slot i of a decompressed contiguous buffer.
ContiguousEntryAt(data, i) ==
    LET x == FieldX(SlotBytes(data, i))
        y == FieldY(SlotBytes(data, i))
    IN  IF PointExists(x, y) THEN <<x, y>> ELSE NullPoint

\* ContiguousChunkData(schema, id, maxPoints, compressedData)
ContiguousFromBytes(id, maxPoints, data) ==
    LET bytes == Decompress(data, maxPoints * PointSize)
    IN  IF bytes = << >> THEN Thrown("Decompression failure", "Contiguous")
        ELSE Built([type |-> Contiguous, m_id |-> id, m_maxPoints |-> maxPoints,
                    m_entries |-> [i \in 0..(maxPoints - 1) |->
                                      ContiguousEntryAt(bytes[1], i)],
                    m_data |-> bytes[1]])

\* ChunkDataFactory::create
ChunkDataFactoryCreate(id, maxPoints, data) ==
    LET t == GetChunkType(data)
    IN  IF t.error # "" THEN Thrown(t.error, "")
        ELSE IF t.type = Sparse THEN SparseFromBytes(id, maxPoints, t.data)
        ELSE ContiguousFromBytes(id, maxPoints, t.data)

\* SparseReader(id, schema, data): key -> native bytes.
SparseReaderFromBytes(id, data) ==
    IF Len(data) < 8 THEN Thrown("Invalid serialized sparse chunk", "Sparse")
    ELSE LET numPoints == U64Value(SubSeq(data, Len(data) - 7, Len(data)))
             body == SubSeq(data, 1, Len(data) - 8)
             squashed == Decompress(body, numPoints * SparsePointSize)
         IN  IF squashed = << >> THEN Thrown("Decompression failure", "Sparse")
             ELSE Built([type |-> Sparse, m_id |-> id, m_maxPoints |-> 0,
                         m_entries |-> << >>,
                         m_data |-> ReadCelled(squashed[1], 0, << >>)])

\* ContiguousReader(id, schema, data): keeps the bytes it is given.
ContiguousReaderFromBytes(id, data) ==
    Built([type |-> Contiguous, m_id |-> id, m_maxPoints |-> 0,
           m_entries |-> << >>, m_data |-> data])

\* ChunkReader::create (chunk.cpp)
ChunkReaderCreate(id, data) ==
    LET t == GetChunkType(data)
    IN  IF t.error # "" THEN Thrown(t.error, "")
        ELSE IF t.type = Sparse THEN SparseReaderFromBytes(id, t.data)
        ELSE ContiguousReaderFromBytes(id, t.data)

----------------------------------------------------------------------------
\* Structure, Bounds, Tube::calcTick: the tree the read path walks.  Points are
\* <<x, y, z>>; cells split in x and y, a tube stacks ticks in z.

\* Structure::baseDepthBegin / baseDepthEnd / coldDepthBegin / coldDepthEnd
BaseDepthBegin == 0
BaseDepthEnd == 2
ColdDepthBegin == 2
ColdDepthEnd == 4

RECURSIVE Pow(_, _)
Pow(b, e) == IF e = 0 THEN 1 ELSE b * Pow(b, e - 1)

\* Side of the cubic bounds: the deepest cells are unit columns.
Side == Pow(2, ColdDepthEnd - 1)

\* metadata.boundsScaledCubic() / reader.bbox()
FullBounds == [min |-> <<0, 0, 0>>, max |-> <<Side, Side, Side>>]

\* Structure: first index of a depth.
RECURSIVE IndexBegin(_)
IndexBegin(d) == IF d = 0 THEN 0 ELSE IndexBegin(d - 1) + Pow(4, d - 1)

\* Structure::baseIndexBegin / baseIndexSpan
BaseIndexBegin == IndexBegin(BaseDepthBegin)
BaseIndexSpan == IndexBegin(BaseDepthEnd) - BaseIndexBegin

\* Structure::getInfo(chunkId).chunkPoints(): a cold chunk holds four sibling cells.
ChunkPoints == Pow(4, 1)

\* Depth of a cell index.
RECURSIVE DepthOf(_)
DepthOf(i) == IF i = 0 THEN 0 ELSE 1 + DepthOf((i - 1) \div 4)

\* The x-y region of a cell: its parent's, halved towards the child's direction
\* (bit 0 of the direction is +x, bit 1 is +y).
RECURSIVE CellRegion(_)
CellRegion(i) ==
    IF i = 0 THEN [min |-> <<0, 0>>, max |-> <<Side, Side>>]
    ELSE LET r == CellRegion((i - 1) \div 4)
             dir == (i - 1) % 4
             mx == (r.min[1] + r.max[1]) \div 2
             my == (r.min[2] + r.max[2]) \div 2
         IN  [min |-> << IF dir % 2 = 1 THEN mx ELSE r.min[1],
                         IF dir \div 2 = 1 THEN my ELSE r.min[2] >>,
              max |-> << IF dir % 2 = 1 THEN r.max[1] ELSE mx,
                         IF dir \div 2 = 1 THEN r.max[2] ELSE my >>]

\* The cell of depth d a point falls in.
RECURSIVE CellIndex(_, _)
CellIndex(p, d) ==
    IF d = 0 THEN 0
    ELSE LET parent == CellIndex(p, d - 1)
             r == CellRegion(parent)
             mx == (r.min[1] + r.max[1]) \div 2
             my == (r.min[2] + r.max[2]) \div 2
         IN  4 * parent + 1 + (IF p[1] >= mx THEN 1 ELSE 0)
                            + (IF p[2] >= my THEN 2 ELSE 0)

\* Structure: the chunk a cold cell index belongs to.
ChunkIdOf(i) ==
    LET b == IndexBegin(DepthOf(i))
    IN  b + ((i - b) \div ChunkPoints) * ChunkPoints

\* The x-y region a cold chunk covers: that of the parent of its cells.
ChunkRegion(c) == CellRegion((c - 1) \div 4)

\* Tube::calcTick(point, bounds, depth)
CalcTick(p, d) ==
    ((p[3] - FullBounds.min[3]) * Pow(2, d))
        \div (FullBounds.max[3] - FullBounds.min[3])

\* Bounds::contains(point): min <= p < max on the three axes.
Contains(box, p) == \A a \in 1..3 : box.min[a] <= p[a] /\ p[a] < box.max[a]

\* Bounds::overlaps on the x-y region of a cell or chunk.
Overlaps(box, region) ==
    \A a \in 1..2 : box.min[a] < region.max[a] /\ region.min[a] < box.max[a]

\* An index with nothing stored.
EmptyStore ==
    [base |-> [i \in BaseIndexBegin..(BaseIndexBegin + BaseIndexSpan - 1) |-> << >>],
     cold |-> << >>]

----------------------------------------------------------------------------
\* The states of the parts a specification leaves idle.

NoReader == [built |-> FALSE, m_depth |-> 0, m_points |-> << >>]

NoRange == [called |-> FALSE, begin |-> 0, end |-> 0, box |-> FullBounds]

NoQuery ==
    [m_qbox |-> FullBounds, m_depthBegin |-> 0, m_depthEnd |-> 0,
     m_chunks |-> {}, m_block |-> << >>, m_chunkReaderIt |-> 0,
     m_numPoints |-> 0, m_base |-> TRUE, m_done |-> FALSE,
     examined |-> 0, reserveFailed |-> FALSE]

\* finalize not called.
NoFinalize == [called |-> FALSE, start |-> 0, chunkPoints |-> 0]

IdleChunk ==
    /\ stage = "build"
    /\ finalized = NoFinalize
    /\ chunk = NewContiguous(0, 0)
    /\ source = << >>
    /\ written = << >>
    /\ ids = << >>
    /\ fault = "none"

IdleReader ==
    /\ unpacked = << >>
    /\ reader = NoReader
    /\ range = NoRange

\* No Query::next call made yet.
NoCall == [made |-> FALSE, passed |-> << >>, returned |-> FALSE]

IdleQuery ==
    /\ phase = "build"
    /\ pending = << >>
    /\ store = EmptyStore
    /\ query = NoQuery
    /\ buffer = << >>
    /\ emitted = << >>
    /\ thrown = ""
    /\ lastCall = NoCall

\* Builder threads.
NumThreads == 3
Threads == 1..NumThreads

\* std::mutex: 0 when free, else the thread that holds it.
NoChunk ==
    [built |-> FALSE, pointSize |-> 0, m_threshold |-> [num |-> 0, den |-> 1],
     type |-> Sparse, m_id |-> 0, m_maxPoints |-> 0, m_mutex |-> 0, m_entries |-> << >>]

IdleThreads == [t \in Threads |-> [pc |-> "idle", rawIndex |-> 0, calls |-> 0]]

NoHistory == [created |-> {}, returned |-> {}]

IdleEntry ==
    /\ shared = NoChunk
    /\ threads = IdleThreads
    /\ history = NoHistory

----------------------------------------------------------------------------
\* SpecChunk: one chunk is built, written once, and one of its blobs is read
\* back (a read-back changes nothing of the chunk or the store, so a run
\* reads one blob, any of them).

\* Begin ids of the chunks explored.
ChunkIds == {0, 4}

\* Native records the builder stores: <<X, Y, Intensity>>.
NativeRecords == {<<0, 0, 0>>, <<1, 2, 9>>}

\* Raw indices handed to getEntry: the chunk's own and one on either side.
RawIndices(c) == {i \in 0..EndId(c) : i + 1 >= c.m_id}

\* What a reader may be handed in place of a stored blob.
Variants == {"asis", "badmarker", "flip", "empty", "bare"}

Tampered(blob, variant) ==
    LET n == Len(blob)
    IN  CASE variant = "asis" -> blob
          [] variant = "badmarker" -> [blob EXCEPT ![n] = 127]
          [] variant = "flip" -> [blob EXCEPT ![n] = 1 - blob[n]]
          [] variant = "empty" -> << >>
          [] OTHER -> << blob[n] >>

\* Populated entries of the chunk under construction.
NumEntries(c) ==
    IF c.type = Sparse THEN Cardinality(DOMAIN c.m_entries)
    ELSE Cardinality({i \in DOMAIN c.m_entries : c.m_entries[i] # NullPoint})

NoMade ==
    [kind |-> "none", begin |-> 0, end |-> 0, variant |-> "asis",
     input |-> << >>, result |-> Thrown("", "")]

InitChunk ==
    /\ stage = "build"
    /\ finalized = NoFinalize
    /\ chunk \in {NewSparse(id, n) : id \in ChunkIds, n \in 2..MaxChunkPoints}
             \cup {NewContiguous(id, n) : id \in ChunkIds, n \in 2..MaxChunkPoints}
    /\ source = << >>
    /\ written = << >>
    /\ ids = << >>
    /\ made = NoMade
    /\ fault = "none"
    /\ IdleReader
    /\ IdleQuery
    /\ IdleEntry

\* Chunk::getEntry(rawIndex)
GetEntry(rawIndex) ==
    /\ stage = "build"
    /\ fault = "none"
    /\ IF chunk.type = Sparse
       THEN /\ rawIndex \in DOMAIN chunk.m_entries \/ NumEntries(chunk) < MaxEntries
            /\ chunk' = SparseGetEntry(chunk, rawIndex)
            /\ fault' = fault
       ELSE IF InRange(chunk, rawIndex)
            THEN UNCHANGED <<chunk, fault>>
            ELSE /\ fault' \in {"assert", "ub"}
                 /\ chunk' = chunk
    /\ UNCHANGED <<stage, source, written, ids, made, finalized>>
    /\ UNCHANGED <<readerVars, queryVars, entryVars>>

\* Chunk::getEntry(rawIndex) followed by the builder's population of the entry.
Populate(rawIndex, rec) ==
    /\ stage = "build"
    /\ fault = "none"
    /\ IF chunk.type = Sparse
       THEN /\ rawIndex \in DOMAIN chunk.m_entries \/ NumEntries(chunk) < MaxEntries
            /\ chunk' = SparsePopulate(chunk, rawIndex, rec)
            /\ fault' = fault
       ELSE IF InRange(chunk, rawIndex)
            THEN /\ ContiguousGetEntry(chunk, rawIndex) # NullPoint
                    \/ NumEntries(chunk) < MaxEntries
                 /\ chunk' = ContiguousPopulate(chunk, rawIndex, rec)
                 /\ fault' = fault
            ELSE /\ fault' \in {"assert", "ub"}
                 /\ chunk' = chunk
    /\ UNCHANGED <<stage, source, written, ids, made, finalized>>
    /\ UNCHANGED <<readerVars, queryVars, entryVars>>

\* The puts of a run of write(source, begin, end) calls.
RECURSIVE PutAll(_, _, _)
PutAll(src, c, ranges) ==
    IF ranges = << >> THEN src
    ELSE PutAll(SourcePut(src, StdToString(ranges[1].begin),
                          WriteBlob(c, ranges[1].begin, ranges[1].end)),
                c, Tail(ranges))

\* Chunk::save -> ChunkData::save
Save ==
    /\ stage = "build"
    /\ fault = "none"
    /\ LET ranges == << [begin |-> chunk.m_id, end |-> EndId(chunk)] >>
       IN  /\ source' = PutAll(source, chunk, ranges)
           /\ written' = written \o ranges
    /\ stage' = "written"
    /\ UNCHANGED <<chunk, ids, made, fault, finalized>>
    /\ UNCHANGED <<readerVars, queryVars, entryVars>>

\* ChunkData::finalize: the for loop's slices from id on.
RECURSIVE FinalizeSlices(_, _, _)
FinalizeSlices(c, id, chunkPoints) ==
    IF id < EndId(c)
    THEN << [begin |-> id, end |-> id + chunkPoints] >>
            \o FinalizeSlices(c, id + chunkPoints, chunkPoints)
    ELSE << >>

\* ChunkData::finalize: every write it makes, in order.
FinalizeRanges(c, start, chunkPoints) ==
    (IF start > c.m_id THEN << [begin |-> c.m_id, end |-> start] >> ELSE << >>)
      \o FinalizeSlices(c, IF start > c.m_id THEN start ELSE c.m_id, chunkPoints)

\* Chunk::finalize -> ChunkData::finalize.  The structure hands a start inside
\* (or at the end of) the chunk and, for a contiguous buffer, slices that end
\* inside it.
Finalize(start, chunkPoints) ==
    /\ stage = "build"
    /\ fault = "none"
    /\ start <= EndId(chunk)
    /\ LET ranges == FinalizeRanges(chunk, start, chunkPoints)
       IN  /\ chunk.type = Contiguous =>
                 \A i \in 1..Len(ranges) : ranges[i].end <= EndId(chunk)
           /\ source' = PutAll(source, chunk, ranges)
           /\ written' = written \o ranges
           /\ ids' = ids \o [i \in 1..Len(ranges) |-> ranges[i].begin]
    /\ finalized' = [called |-> TRUE, start |-> start, chunkPoints |-> chunkPoints]
    /\ stage' = "written"
    /\ UNCHANGED <<chunk, made, fault>>
    /\ UNCHANGED <<readerVars, queryVars, entryVars>>

\* ChunkDataFactory::create on a stored blob (or on what took its place).
FactoryCreate(w, variant) ==
    /\ stage = "written"
    /\ made = NoMade
    /\ LET blob == Tampered(source[StdToString(written[w].begin)], variant)
       IN  made' = [kind |-> "ChunkData",
                    begin |-> written[w].begin, end |-> written[w].end,
                    variant |-> variant, input |-> blob,
                    result |-> ChunkDataFactoryCreate(
                                   written[w].begin,
                                   written[w].end - written[w].begin, blob)]
    /\ UNCHANGED <<stage, chunk, source, written, ids, fault, finalized>>
    /\ UNCHANGED <<readerVars, queryVars, entryVars>>

\* ChunkReader::create on a stored blob (or on what took its place).
ReaderCreate(w, variant) ==
    /\ stage = "written"
    /\ made = NoMade
    /\ LET blob == Tampered(source[StdToString(written[w].begin)], variant)
       IN  made' = [kind |-> "ChunkReader",
                    begin |-> written[w].begin, end |-> written[w].end,
                    variant |-> variant, input |-> blob,
                    result |-> ChunkReaderCreate(written[w].begin, blob)]
    /\ UNCHANGED <<stage, chunk, source, written, ids, fault, finalized>>
    /\ UNCHANGED <<readerVars, queryVars, entryVars>>

NextChunk ==
    \/ \E rawIndex \in RawIndices(chunk) : GetEntry(rawIndex)
    \/ \E rawIndex \in RawIndices(chunk), rec \in NativeRecords : Populate(rawIndex, rec)
    \/ Save
    \/ \E start \in RawIndices(chunk), chunkPoints \in 1..MaxChunkPoints :
           Finalize(start, chunkPoints)
    \/ \E w \in DOMAIN written, variant \in Variants : FactoryCreate(w, variant)
    \/ \E w \in DOMAIN written, variant \in Variants : ReaderCreate(w, variant)

SpecChunk == InitChunk /\ [][NextChunk]_vars

----------------------------------------------------------------------------
\* Claims about chunk data (checked under SpecChunk).

LastByte(b) == b[Len(b)]

\* C1: the factories pop the trailing byte and dispatch on it: 0x01 goes to
\* the Contiguous constructor, 0x00 to the Sparse one, any other last byte is
\* rejected with "Invalid chunk type detected" and an empty blob with
\* "Invalid chunk data detected"; in both error cases no object is produced.
C1_MarkerDispatch ==
    made.kind # "none" =>
        LET b == made.input
            r == made.result
        IN  /\ b = << >> =>
                 /\ r.error = "Invalid chunk data detected"
                 /\ r.ctor = "" /\ r.object = << >>
            /\ (b # << >> /\ LastByte(b) \notin {0, 1}) =>
                 /\ r.error = "Invalid chunk type detected"
                 /\ r.ctor = "" /\ r.object = << >>
            /\ (b # << >> /\ LastByte(b) = 1) =>
                 /\ r.ctor = "Contiguous"
                 /\ r.object # << >> => r.object[1].type = Contiguous
            /\ (b # << >> /\ LastByte(b) = 0) =>
                 /\ r.ctor = "Sparse"
                 /\ r.object # << >> => r.object[1].type = Sparse

\* C1 witness: a stored blob whose marker was overwritten with 0x7f is rejected.
C1_Witness ==
    /\ made.kind = "ChunkData"
    /\ made.variant = "badmarker"
    /\ Len(made.input) > 1
    /\ made.result.error = "Invalid chunk type detected"

\* The blob read back is the one write produced for the whole chunk.
ReadBackWhole ==
    /\ made.kind = "ChunkData"
    /\ made.variant = "asis"
    /\ made.begin = chunk.m_id
    /\ made.end = EndId(chunk)

\* C2: a sparse chunk with any subset of its own raw indices populated, written
\* whole and rebuilt by ChunkDataFactory::create, comes back as a Sparse chunk
\* with exactly the same populated index set and the same bytes per index.
C2_SparseRoundTrip ==
    (/\ ReadBackWhole
     /\ chunk.type = Sparse
     /\ \A k \in DOMAIN chunk.m_entries : InRange(chunk, k)) =>
        /\ made.result.error = ""
        /\ made.result.object # << >>
        /\ LET back == made.result.object[1]
           IN  /\ back.type = Sparse
               /\ DOMAIN back.m_entries = DOMAIN chunk.m_entries
               /\ \A k \in DOMAIN chunk.m_entries :
                      back.m_entries[k].data = chunk.m_entries[k].data

\* C2 witness: a round trip of a sparse chunk holding its first index and one
\* more, one of them with non-zero bytes.
C2_Witness ==
    /\ ReadBackWhole
    /\ chunk.type = Sparse
    /\ \A k \in DOMAIN chunk.m_entries : InRange(chunk, k)
    /\ chunk.m_id \in DOMAIN chunk.m_entries
    /\ Cardinality(DOMAIN chunk.m_entries) >= 2
    /\ \E k \in DOMAIN chunk.m_entries : chunk.m_entries[k].data = <<1, 2, 9>>
    /\ made.result.error = ""

\* C3: a contiguous chunk, written and rebuilt by ChunkDataFactory::create,
\* comes back Contiguous; every slot that held a Point holds an equal Point,
\* and a slot holds no Point exactly when its stored X and Y are emptyCoord.
C3_ContiguousRoundTrip ==
    (/\ made.kind = "ChunkData"
     /\ made.variant = "asis"
     /\ chunk.type = Contiguous) =>
        /\ made.result.error = ""
        /\ made.result.object # << >>
        /\ LET back == made.result.object[1]
               off == made.begin - chunk.m_id
           IN  /\ back.type = Contiguous
               /\ DOMAIN back.m_entries = 0..(made.end - made.begin - 1)
               /\ \A i \in DOMAIN back.m_entries :
                      /\ chunk.m_entries[off + i] # NullPoint =>
                             back.m_entries[i] = chunk.m_entries[off + i]
                      /\ back.m_entries[i] = NullPoint <=>
                             /\ FieldX(SlotBytes(chunk.m_data, off + i)) = EmptyCoord
                             /\ FieldY(SlotBytes(chunk.m_data, off + i)) = EmptyCoord

\* C3 witness: a whole contiguous chunk with a populated and an empty slot
\* was read back.
C3_Witness ==
    /\ ReadBackWhole
    /\ chunk.type = Contiguous
    /\ \E i \in DOMAIN chunk.m_entries : chunk.m_entries[i] = <<1, 2>>
    /\ \E i \in DOMAIN chunk.m_entries : chunk.m_entries[i] = NullPoint
    /\ made.result.error = ""

\* C9: whatever getEntry calls were made, every index a chunk holds lies in
\* [m_id, m_id + m_maxPoints): an out-of-range lookup creates no Entry.
C9_HeldIndexInRange ==
    chunk.type = Sparse => \A k \in DOMAIN chunk.m_entries : InRange(chunk, k)

\* The 8-byte count in front of a sparse blob's marker.
NumPointsField(blob) == U64Value(SubSeq(blob, Len(blob) - 8, Len(blob) - 1))

\* C10: in every blob SparseChunkData::write(source, begin, end) produces, the
\* numPoints field equals the number of populated entries with a key in
\* [begin, end), i.e. the number of celled records in the payload.  Stated
\* here for chunks whose keys all lie in range, where only write decides it.
C10_NumPointsCountsRecords ==
    (/\ chunk.type = Sparse
     /\ \A k \in DOMAIN chunk.m_entries : InRange(chunk, k)) =>
        \A w \in DOMAIN written :
            LET blob == source[StdToString(written[w].begin)]
            IN  /\ NumPointsField(blob) =
                       Cardinality(SquashKeys(chunk, written[w].begin, written[w].end))
                /\ NumPointsField(blob) * SparsePointSize = Len(blob) - 9

\* The writes of a finalize call after its prefix blob, if it wrote one.
AfterPrefix(c, f) ==
    IF f.start > c.m_id THEN Tail(written) ELSE written

\* C13: after finalize(start, chunkPoints), a prefix blob [m_id, start) was
\* written first exactly when start > m_id; then a Contiguous chunk got one
\* blob per [id, id + chunkPoints) slice from max(start, m_id) to the chunk
\* end, and a Sparse chunk exactly one blob covering the entire chunk; every
\* blob is stored under the decimal string of its begin id, and ids holds the
\* begin ids of the blobs, once each, in order.
C13_FinalizeBlobs ==
    finalized.called =>
        LET c == chunk
            f == finalized
            first == IF f.start > c.m_id THEN f.start ELSE c.m_id
            rest == AfterPrefix(c, f)
        IN  /\ f.start > c.m_id =>
                /\ written # << >>
                /\ written[1] = [begin |-> c.m_id, end |-> f.start]
            /\ c.type = Contiguous =>
                /\ \A i \in DOMAIN rest :
                       /\ rest[i].begin = first + (i - 1) * f.chunkPoints
                       /\ rest[i].end = rest[i].begin + f.chunkPoints
                       /\ rest[i].begin < EndId(c)
                /\ first + Len(rest) * f.chunkPoints >= EndId(c)
            /\ c.type = Sparse =>
                /\ Len(rest) = 1
                /\ rest[1].begin <= c.m_id
                /\ rest[1].end >= EndId(c)
            /\ \A w \in DOMAIN written :
                   /\ StdToString(written[w].begin) \in DOMAIN source
                   /\ source[StdToString(written[w].begin)] =
                          WriteBlob(c, written[w].begin, written[w].end)
            /\ ids = [w \in DOMAIN written |-> written[w].begin]
            /\ Cardinality(DOMAIN source) = Len(written)

\* What finalize does for either kind of chunk: the prefix blob when
\* start > m_id, then one blob per slice; names and ids as above.
FinalizeAsCoded ==
    finalized.called =>
        LET c == chunk
            f == finalized
            first == IF f.start > c.m_id THEN f.start ELSE c.m_id
            rest == AfterPrefix(c, f)
        IN  /\ f.start > c.m_id =>
                /\ written # << >>
                /\ written[1] = [begin |-> c.m_id, end |-> f.start]
            /\ \A i \in DOMAIN rest :
                   /\ rest[i].begin = first + (i - 1) * f.chunkPoints
                   /\ rest[i].end = rest[i].begin + f.chunkPoints
                   /\ rest[i].begin < EndId(c)
            /\ first + Len(rest) * f.chunkPoints >= EndId(c)
            /\ \A w \in DOMAIN written :
                   /\ StdToString(written[w].begin) \in DOMAIN source
                   /\ source[StdToString(written[w].begin)] =
                          WriteBlob(c, written[w].begin, written[w].end)
            /\ ids = [w \in DOMAIN written |-> written[w].begin]
            /\ Cardinality(DOMAIN source) = Len(written)

----------------------------------------------------------------------------
\* ChunkReader (reader/chunk-reader.cpp)

\* Records a chunk blob may hold.
MaxRecords == 3

Range(f) == {f[i] : i \in DOMAIN f}

\* The constructor's loop: one PointInfo (point, data position, tick) per
\* unpacked point, in blob order.
ReaderRecords(points, depth) ==
    [i \in 1..Len(points) |->
        [point |-> points[i], pos |-> i, tick |-> CalcTick(points[i], depth)]]

IsTickSorted(pts) == \A i \in 1..(Len(pts) - 1) : pts[i].tick <= pts[i + 1].tick

\* The point array left in blob order.
BlobOrder(recs) == {recs}

\* std::sort(m_points.begin(), m_points.end()): the records ordered by tick;
\* the order among equal ticks is whatever the sort leaves.
SortedArrangements(recs) ==
    {pts \in [1..Len(recs) -> Range(recs)] :
        /\ \A i, j \in 1..Len(recs) : i # j => pts[i] # pts[j]
        /\ IsTickSorted(pts)}

\* std::lower_bound over m_points with a PointInfo(tick) key: 1-based position.
RECURSIVE LowerBoundFrom(_, _, _, _)
LowerBoundFrom(pts, key, first, len) ==
    IF len = 0 THEN first
    ELSE LET half == len \div 2
             mid == first + half
         IN  IF pts[mid].tick < key
             THEN LowerBoundFrom(pts, key, mid + 1, len - half - 1)
             ELSE LowerBoundFrom(pts, key, first, half)

LowerBound(pts, key) == LowerBoundFrom(pts, key, 1, Len(pts))

\* std::upper_bound over m_points with a PointInfo(tick) key.
RECURSIVE UpperBoundFrom(_, _, _, _)
UpperBoundFrom(pts, key, first, len) ==
    IF len = 0 THEN first
    ELSE LET half == len \div 2
             mid == first + half
         IN  IF key < pts[mid].tick
             THEN UpperBoundFrom(pts, key, first, half)
             ELSE UpperBoundFrom(pts, key, mid + 1, len - half - 1)

UpperBound(pts, key) == UpperBoundFrom(pts, key, 1, Len(pts))

\* ChunkReader::ChunkReader: the readers the constructor may leave.
NewReaders(points, depth) ==
    {[built |-> TRUE, m_depth |-> depth, m_points |-> pts] :
        pts \in SortedArrangements(ReaderRecords(points, depth))}

\* candidates() with upper_bound replaced by lower_bound for the end.
CandidatesOpenEnd(rd, box) ==
    [called |-> TRUE,
     begin |-> LowerBound(rd.m_points, CalcTick(box.min, rd.m_depth)),
     end |-> LowerBound(rd.m_points, CalcTick(box.max, rd.m_depth)),
     box |-> box]

\* ChunkReader::candidates: [begin, end) as positions in m_points.
Candidates(rd, box) ==
    [called |-> TRUE,
     begin |-> LowerBound(rd.m_points, CalcTick(box.min, rd.m_depth)),
     end |-> UpperBound(rd.m_points, CalcTick(box.max, rd.m_depth)),
     box |-> box]

\* z coordinates of the points a reader is built from, and of query slabs.
ReaderZs == {0, 3, 4, 7}
SlabZs == {0, 2, 4, 5, Side}

ReaderPoints == {<<0, 0, z>> : z \in ReaderZs}

ReaderBoxes ==
    {[min |-> <<0, 0, ab[1]>>, max |-> <<Side, Side, ab[2]>>] :
        ab \in {zz \in SlabZs \X SlabZs : zz[1] <= zz[2]}}

InitReader ==
    /\ unpacked \in UNION {[1..n -> ReaderPoints] : n \in 0..MaxRecords}
    /\ reader = NoReader
    /\ range = NoRange
    /\ IdleChunk
    /\ made = NoMade
    /\ IdleQuery
    /\ IdleEntry

\* ChunkReader::ChunkReader(metadata, id, depth, data)
Construct(depth) ==
    /\ ~reader.built
    /\ reader' \in NewReaders(unpacked, depth)
    /\ UNCHANGED <<unpacked, range>>
    /\ UNCHANGED <<chunkVars, queryVars, entryVars>>

\* ChunkReader::candidates(queryBounds)
CandidatesCall(box) ==
    /\ reader.built
    /\ range' = Candidates(reader, box)
    /\ UNCHANGED <<unpacked, reader>>
    /\ UNCHANGED <<chunkVars, queryVars, entryVars>>

NextReader ==
    \/ \E depth \in ColdDepthBegin..(ColdDepthEnd - 1) : Construct(depth)
    \/ \E box \in ReaderBoxes : CandidatesCall(box)

SpecReader == InitReader /\ [][NextReader]_vars

\* C8: the range candidates(B) returns is sorted by ascending tick, every
\* record in it has its tick in [calcTick(B.min), calcTick(B.max)], and every
\* record of the chunk with a tick in that interval is in it.
C8_CandidatesExact ==
    range.called =>
        LET lo == CalcTick(range.box.min, reader.m_depth)
            hi == CalcTick(range.box.max, reader.m_depth)
            pts == reader.m_points
        IN  /\ 1 <= range.begin /\ range.begin <= range.end
            /\ range.end <= Len(pts) + 1
            /\ \A i \in range.begin..(range.end - 1) :
                   /\ lo <= pts[i].tick /\ pts[i].tick <= hi
                   /\ i + 1 < range.end => pts[i].tick <= pts[i + 1].tick
            /\ \A n \in 1..Len(unpacked) :
                   LET t == CalcTick(unpacked[n], reader.m_depth)
                   IN  (lo <= t /\ t <= hi) =>
                           \E i \in range.begin..(range.end - 1) :
                               pts[i].pos = n /\ pts[i].point = unpacked[n]

\* C8 witness: a range that keeps some records, among them one whose tick is
\* calcTick(B.max), and leaves some out on either side.
C8_Witness ==
    /\ range.called
    /\ 1 < range.begin
    /\ range.begin < range.end
    /\ range.end <= Len(reader.m_points)
    /\ reader.m_points[range.end - 1].tick = CalcTick(range.box.max, reader.m_depth)

----------------------------------------------------------------------------
\* The built index the read path serves (Registry::addPoint is the builder).

\* A tube with one more cell: the first point is the primary cell, the others
\* are the secondary cells, kept in tick order.
TubeAdd(tube, rec) ==
    IF tube = << >> THEN <<rec>>
    ELSE LET below == {i \in 2..Len(tube) : tube[i].tick < rec.tick}
             k == 1 + Cardinality(below)
         IN  SubSeq(tube, 1, k) \o <<rec>> \o SubSeq(tube, k + 1, Len(tube))

\* Adding a point: it takes the first free (cell, tick) on its way down, in a
\* base tube or in the cold chunk of its cell; below the last depth it is dropped.
RECURSIVE InsertAt(_, _, _)
InsertAt(st, p, d) ==
    IF d >= ColdDepthEnd THEN st
    ELSE LET cell == CellIndex(p, d)
             tick == CalcTick(p, d)
         IN  IF d < BaseDepthEnd
             THEN IF \E i \in DOMAIN st.base[cell] : st.base[cell][i].tick = tick
                  THEN InsertAt(st, p, d + 1)
                  ELSE [st EXCEPT !.base[cell] =
                            TubeAdd(st.base[cell], [point |-> p, tick |-> tick])]
             ELSE LET c == ChunkIdOf(cell)
                      recs == IF c \in DOMAIN st.cold THEN st.cold[c] ELSE << >>
                  IN  IF \E i \in DOMAIN recs :
                             recs[i].cell = cell /\ CalcTick(recs[i].point, d) = tick
                      THEN InsertAt(st, p, d + 1)
                      ELSE [st EXCEPT !.cold =
                                [k \in DOMAIN st.cold \cup {c} |->
                                    IF k = c THEN Append(recs, [point |-> p, cell |-> cell])
                                    ELSE st.cold[k]]]

\* Every point the index holds.
SeqPoints(recs) == {recs[i].point : i \in DOMAIN recs}

StoredBase(st) == UNION {SeqPoints(st.base[i]) : i \in DOMAIN st.base}
StoredCold(st) == UNION {SeqPoints(st.cold[c]) : c \in DOMAIN st.cold}

RECURSIVE SumLen(_, _)
SumLen(f, keys) ==
    IF keys = {} THEN 0
    ELSE LET k == SetMin(keys) IN Len(f[k]) + SumLen(f, keys \ {k})

NumStored(st) == SumLen(st.base, DOMAIN st.base) + SumLen(st.cold, DOMAIN st.cold)

\* reader.exists(chunkId)
ChunkExists(st, c) == c \in DOMAIN st.cold

----------------------------------------------------------------------------
\* SplitClimber: depth-first walk of the cells (or chunks) that overlap the
\* query bounds; a node of depth >= depthBegin is handed to the caller, and
\* the walk goes below a node unless the caller terminated it or the next
\* depth is depthEnd.

\* getBase's walk: the PointInfos of the tubes visited, primary cell first,
\* then the secondary cells, in the order processPoint sees them.
RECURSIVE BaseWalk(_, _, _, _, _)
BaseWalk(st, box, depthBegin, depthEnd, i) ==
    IF ~Overlaps(box, CellRegion(i)) THEN << >>
    ELSE LET d == DepthOf(i)
             visit == d >= depthBegin
             tube == st.base[i]
             terminate == visit /\ tube = << >>
         IN  (IF visit THEN tube ELSE << >>)
               \o (IF ~terminate /\ d + 1 < depthEnd
                   THEN BaseWalk(st, box, depthBegin, depthEnd, 4 * i + 1)
                          \o BaseWalk(st, box, depthBegin, depthEnd, 4 * i + 2)
                          \o BaseWalk(st, box, depthBegin, depthEnd, 4 * i + 3)
                          \o BaseWalk(st, box, depthBegin, depthEnd, 4 * i + 4)
                   ELSE << >>)

\* The constructor's walk in chunk mode: the chunk ids inserted into m_chunks.
RECURSIVE ColdWalk(_, _, _, _, _)
ColdWalk(st, box, depthBegin, depthEnd, c) ==
    IF ~Overlaps(box, ChunkRegion(c)) THEN {}
    ELSE LET d == DepthOf(c)
             visit == d >= depthBegin
             terminate == visit /\ ~ChunkExists(st, c)
         IN  (IF visit /\ ChunkExists(st, c) THEN {c} ELSE {})
               \cup (IF /\ ~terminate
                        /\ (depthEnd = 0 \/ d + 1 < depthEnd)
                        /\ d + 1 < ColdDepthEnd
                     THEN UNION {ColdWalk(st, box, depthBegin, depthEnd, 4 * k + 1) :
                                    k \in c..(c + ChunkPoints - 1)}
                     ELSE {})

\* The chunks of the first cold depth.
TopChunks ==
    {IndexBegin(ColdDepthBegin) + n * ChunkPoints :
        n \in 0..((Pow(4, ColdDepthBegin) \div ChunkPoints) - 1)}

----------------------------------------------------------------------------
\* Cache::acquire and the ChunkBlock it returns.

\* The points of a stored chunk, in blob order.
ChunkPointsOf(st, c) == [i \in 1..Len(st.cold[c]) |-> st.cold[c][i].point]

\* What a block may hold for one chunk id: no reader, or the hydrated reader.
BlockEntries(st, c) ==
    {[id |-> c, reader |-> << >>]}
      \cup {[id |-> c, reader |-> <<rd>>] : rd \in NewReaders(ChunkPointsOf(st, c), DepthOf(c))}

SortedSeq(S) ==
    [i \in 1..Cardinality(S) |->
        CHOOSE x \in S : Cardinality({y \in S : y < x}) = i - 1]

\* block->chunkMap(): one entry per requested id, in key order.
RECURSIVE ChunkMaps(_, _)
ChunkMaps(st, idSeq) ==
    IF idSeq = << >> THEN {<< >>}
    ELSE {<<e>> \o rest : e \in BlockEntries(st, Head(idSeq)),
                          rest \in ChunkMaps(st, Tail(idSeq))}

\* m_cache.acquire(path, subset): a null block, or a block over the subset.
AcquireResults(st, subset) ==
    {<< >>} \cup {<<m>> : m \in ChunkMaps(st, SortedSeq(subset))}

----------------------------------------------------------------------------
\* BaseQuery / Query (reader/query.cpp)

FetchesPerIteration == 4

Min(a, b) == IF a < b THEN a ELSE b

\* BaseQuery::BaseQuery: m_chunks is filled by a chunk-mode climb when the
\* depth range reaches the cold depths.
NewQuery(st, box, depthBegin, depthEnd) ==
    [m_qbox |-> box, m_depthBegin |-> depthBegin, m_depthEnd |-> depthEnd,
     m_chunks |->
        IF depthEnd = 0 \/ depthEnd > ColdDepthBegin
        THEN UNION {ColdWalk(st, box, depthBegin, depthEnd, c) : c \in TopChunks}
        ELSE {},
     m_block |-> << >>, m_chunkReaderIt |-> 0,
     m_numPoints |-> 0, m_base |-> TRUE, m_done |-> FALSE,
     examined |-> 0, reserveFailed |-> FALSE]

\* The record a point leaves in the output buffer; chunk and tick say where
\* the read path found it (chunk 0 is the base).
OutRecord(info, c) == [point |-> info.point, chunk |-> c, tick |-> info.tick]

\* processPoint without the bounds test.
ProcessPointUnchecked(box, info, c) == <<OutRecord(info, c)>>

\* Query::processPoint: what it appends to the buffer; it returns true
\* exactly when it appended.
ProcessPoint(box, info, c) ==
    IF Contains(box, info.point) THEN <<OutRecord(info, c)>> ELSE << >>

\* processPoint over the PointInfos a loop walks, in order.
RECURSIVE ProcessFrom(_, _, _, _)
ProcessFrom(box, infos, c, i) ==
    IF i > Len(infos) THEN << >>
    ELSE ProcessPoint(box, infos[i], c) \o ProcessFrom(box, infos, c, i + 1)

ProcessAll(box, infos, c) == ProcessFrom(box, infos, c, 1)

\* The first index the base climb can stand on.
SplitterStart(depthBegin) == IndexBegin(Min(depthBegin, BaseDepthEnd))

\* BaseQuery::getBase: the PointInfos it hands to processPoint.
GetBaseInfos(st, q) ==
    IF q.m_depthBegin < BaseDepthEnd /\ q.m_depthEnd > BaseDepthBegin
    THEN IF SplitterStart(q.m_depthBegin) < BaseIndexBegin THEN << >>
         ELSE BaseWalk(st, q.m_qbox, q.m_depthBegin,
                       Min(q.m_depthEnd, BaseDepthEnd), 0)
    ELSE << >>

\* The next ids getChunked asks the cache for: the first fetchesPerIteration
\* of m_chunks.
FirstN(S, n) == {x \in S : Cardinality({y \in S : y < x}) < n}

\* Every pending id at once.
NextSubsetAll(q) == q.m_chunks

NextSubset(q) == FirstN(q.m_chunks, FetchesPerIteration)

\* A block that lacks a reader for one of its chunks.
HasNullReader(blk) ==
    blk # << >> /\ \E i \in DOMAIN blk[1] : blk[1][i].reader = << >>

\* getChunked, first part: with no block in hand and chunks left, acquire
\* the next subset and erase it from m_chunks.
AcquireStep(q, blk) ==
    IF q.m_block = << >> /\ q.m_chunks # {}
    THEN [q EXCEPT !.m_block = blk,
                   !.m_chunks = q.m_chunks \ NextSubset(q),
                   !.m_chunkReaderIt = IF blk # << >> THEN 1 ELSE q.m_chunkReaderIt,
                   !.reserveFailed = q.reserveFailed \/ blk = << >> \/ HasNullReader(blk)]
    ELSE q

\* BaseQuery::getChunked: the query after the call, the records appended and
\* the exception thrown, if any.
GetChunked(q0, blk) ==
    LET q == AcquireStep(q0, blk)
    IN  IF q.m_block = << >>
        THEN [query |-> [q EXCEPT !.m_done = q.m_chunks = {}],
              buffer |-> << >>, thrown |-> ""]
        ELSE LET entry == q.m_block[1][q.m_chunkReaderIt]
             IN  IF entry.reader = << >>
                 THEN [query |-> q, buffer |-> << >>,
                       thrown |-> "Reservation failure"]
                 ELSE LET rd == entry.reader[1]
                          rg == Candidates(rd, q.m_qbox)
                          infos == SubSeq(rd.m_points, rg.begin, rg.end - 1)
                          out == ProcessAll(q.m_qbox, infos, entry.id)
                          last == q.m_chunkReaderIt = Len(q.m_block[1])
                          q2 == [q EXCEPT
                                   !.examined = q.examined + Len(infos),
                                   !.m_numPoints = q.m_numPoints + Len(out),
                                   !.m_chunkReaderIt =
                                       IF last THEN 0 ELSE q.m_chunkReaderIt + 1,
                                   !.m_block = IF last THEN << >> ELSE q.m_block]
                      IN  [query |-> [q2 EXCEPT
                                        !.m_done = q2.m_block = << >> /\ q2.m_chunks = {}],
                           buffer |-> out, thrown |-> ""]

\* BaseQuery::next for a query that is not done: the base first; when the
\* base gave nothing the same call goes on to the chunks.
BaseQueryNext(st, q, blk) ==
    IF q.m_base
    THEN LET infos == GetBaseInfos(st, q)
             out == ProcessAll(q.m_qbox, infos, 0)
             q1 == [q EXCEPT !.m_base = FALSE,
                             !.examined = q.examined + Len(infos),
                             !.m_numPoints = q.m_numPoints + Len(out)]
         IN  IF out # << >>
             THEN [query |-> q1, buffer |-> out, thrown |-> ""]
             ELSE IF q1.m_chunks = {}
                  THEN [query |-> [q1 EXCEPT !.m_done = TRUE],
                        buffer |-> << >>, thrown |-> ""]
                  ELSE GetChunked(q1, blk)
    ELSE GetChunked(q, blk)

\* Whether the coming call reaches m_cache.acquire.
WillAcquire(st, q) ==
    /\ ~q.m_done
    /\ q.m_block = << >>
    /\ q.m_chunks # {}
    /\ q.m_base => ProcessAll(q.m_qbox, GetBaseInfos(st, q), 0) = << >>

----------------------------------------------------------------------------
\* A build followed by one query.

\* Points added to the index before the query starts.
MaxPoints == 12

\* Two builds.  The first fills the root, the four depth-1 tubes (one of them
\* with a secondary cell), the four chunks of depth 2 and one chunk of depth 3;
\* chunk 5 receives its points in descending tick order.  The second has a tube
\* whose secondary cell is below its primary one and a chunk with equal ticks.
CloudA ==
    << <<0, 0, 0>>, <<1, 1, 1>>, <<5, 1, 1>>, <<1, 5, 1>>, <<5, 5, 1>>,
       <<1, 1, 6>>, <<2, 1, 7>>, <<1, 2, 2>>, <<6, 1, 0>>, <<1, 6, 0>>,
       <<6, 6, 0>>, <<6, 6, 1>>, <<6, 7, 1>> >>

CloudB ==
    << <<7, 7, 7>>, <<0, 0, 0>>, <<1, 0, 0>>, <<3, 3, 0>>, <<0, 1, 0>>,
       <<4, 0, 5>>, <<5, 0, 1>>, <<4, 1, 6>> >>

Take(seq, n) == SubSeq(seq, 1, Min(n, Len(seq)))

Clouds == {Take(CloudA, MaxPoints), Take(CloudB, MaxPoints)}

QueryBoxes ==
    {FullBounds,
     [min |-> <<0, 0, 1>>, max |-> <<Side, Side, 4>>],
     [min |-> <<0, 0, 0>>, max |-> <<2, 4, Side>>],
     [min |-> <<4, 0, 0>>, max |-> <<Side, Side, 2>>]}

\* <<depthBegin, depthEnd>>; a depthEnd of 0 asks for no lower limit.
DepthRanges ==
    {<<0, ColdDepthEnd>>, <<0, 0>>, <<0, BaseDepthEnd>>,
     <<ColdDepthBegin, ColdDepthEnd>>, <<1, 3>>, <<3, ColdDepthEnd>>}

InitQuery ==
    /\ phase = "build"
    /\ pending \in Clouds
    /\ store = EmptyStore
    /\ query = NoQuery
    /\ buffer = << >>
    /\ emitted = << >>
    /\ thrown = ""
    /\ lastCall = NoCall
    /\ IdleChunk
    /\ made = NoMade
    /\ IdleReader
    /\ IdleEntry

\* The builder adds the next point of the cloud.
AddPoint ==
    /\ phase = "build"
    /\ pending # << >>
    /\ store' = InsertAt(store, Head(pending), 0)
    /\ pending' = Tail(pending)
    /\ UNCHANGED <<phase, query, buffer, emitted, thrown, lastCall>>
    /\ UNCHANGED <<chunkVars, readerVars, entryVars>>

\* Query::Query(reader, schema, cache, qbox, depthBegin, depthEnd, normalize)
StartQuery(box, depthBegin, depthEnd) ==
    /\ phase = "build"
    /\ phase' = "query"
    /\ query' = NewQuery(store, box, depthBegin, depthEnd)
    /\ UNCHANGED <<pending, store, buffer, emitted, thrown, lastCall>>
    /\ UNCHANGED <<chunkVars, readerVars, entryVars>>

\* What m_cache.acquire may return to the coming call (a null block stands
\* in when the call does not get that far).
AcquireOutcomes(st, q) ==
    IF WillAcquire(st, q) THEN AcquireResults(st, NextSubset(q)) ELSE {<< >>}

\* Query::next(buffer) with BaseQuery::next inlined: the records appended,
\* the query afterwards and the exception thrown, if any.
QueryNextUnguarded(st, q, passed, blk) == BaseQueryNext(st, q, blk)

QueryNextOutcome(st, q, passed, blk) ==
    IF passed # << >>
    THEN [query |-> q, buffer |-> << >>, thrown |-> "Query buffer not empty"]
    ELSE IF q.m_done
         THEN [query |-> q, buffer |-> << >>,
               thrown |-> "Called next after query completed"]
         ELSE BaseQueryNext(st, q, blk)

\* Query::next(buffer): the caller hands over a cleared buffer, or the one of
\* the previous call as it is; blk is what m_cache.acquire returns if the
\* call gets that far.
QueryNext(reuse, blk) ==
    /\ phase = "query"
    /\ thrown = ""
    /\ blk \in AcquireOutcomes(store, query)
    /\ \E passed \in {IF reuse THEN buffer ELSE << >>} :
       \E r \in {QueryNextOutcome(store, query, passed, blk)} :
           /\ query' = r.query
           /\ buffer' = passed \o r.buffer
           /\ emitted' = emitted \o r.buffer
           /\ thrown' = r.thrown
           /\ lastCall' = [made |-> TRUE, passed |-> passed,
                           returned |-> r.thrown = "" /\ ~r.query.m_done]
    /\ UNCHANGED <<phase, pending, store>>
    /\ UNCHANGED <<chunkVars, readerVars, entryVars>>

NextQuery ==
    \/ AddPoint
    \/ \E box \in QueryBoxes, dr \in DepthRanges : StartQuery(box, dr[1], dr[2])
    \/ \E reuse \in BOOLEAN, blk \in AcquireOutcomes(store, query) :
           QueryNext(reuse, blk)

SpecQuery == InitQuery /\ [][NextQuery]_vars

\* The caller's loop: while (query.next(buffer)) { ... } keeps calling
\* until a call returns false or throws.
CallerLoop ==
    /\ phase = "query"
    /\ thrown = ""
    /\ \E reuse \in BOOLEAN, blk \in AcquireOutcomes(store, query) :
           QueryNext(reuse, blk)

SpecQueryLive == SpecQuery /\ WF_vars(CallerLoop)

----------------------------------------------------------------------------
\* Claims about queries (checked under SpecQuery).

EmittedPoints == {emitted[i].point : i \in DOMAIN emitted}

\* C4: a query over the full bounds and the full depth range that has run to
\* completion has emitted every stored point (base primaries and secondaries,
\* every record of every cold chunk) exactly once: as many records as the
\* index stores, and the same set of points.
C4_QueryCompleteness ==
    (/\ phase = "query"
     /\ query.m_done
     /\ query.m_qbox = FullBounds
     /\ query.m_depthBegin = 0
     /\ query.m_depthEnd = ColdDepthEnd) =>
        /\ Len(emitted) = NumStored(store)
        /\ EmittedPoints = StoredBase(store) \cup StoredCold(store)

\* C5: every record in the output corresponds to a point inside the query
\* bounds, and numPoints counts exactly the records appended: a candidate
\* outside the bounds appends nothing and is not counted.
C5_QueryContainment ==
    phase = "query" =>
        /\ \A i \in DOMAIN emitted : Contains(query.m_qbox, emitted[i].point)
        /\ query.m_numPoints = Len(emitted)
        /\ query.m_numPoints <= query.examined

\* C5 witness: a finished query whose chunks offered more candidates than it
\* emitted, with records from the base and from a cold chunk in the output.
C5_Witness ==
    /\ phase = "query"
    /\ query.m_done
    /\ query.examined > Len(emitted)
    /\ \E i \in DOMAIN emitted : emitted[i].chunk = 0
    /\ \E i \in DOMAIN emitted : emitted[i].chunk > 0

\* C6: once acquire has returned a null block, or a block with a null reader,
\* the call that asked for the batch has raised "Reservation failure".
C6_ReservationFailureIsFatal ==
    (phase = "query" /\ query.reserveFailed) => thrown = "Reservation failure"

\* C7: after the base records, the output is in ascending chunk id order, and
\* within one chunk in ascending tick order.
C7_OutputOrdering ==
    \A i, j \in DOMAIN emitted :
        i < j =>
            /\ emitted[j].chunk = 0 => emitted[i].chunk = 0
            /\ (emitted[i].chunk > 0 /\ emitted[j].chunk > 0) =>
                   \/ emitted[i].chunk < emitted[j].chunk
                   \/ /\ emitted[i].chunk = emitted[j].chunk
                      /\ emitted[i].tick <= emitted[j].tick

\* C7 witness: a finished query whose output follows the base records with
\* records of five cold chunks (two batches), one chunk giving two ticks.
C7_Witness ==
    /\ phase = "query"
    /\ query.m_done
    /\ \E i \in DOMAIN emitted : emitted[i].chunk = 0
    /\ Cardinality({emitted[i].chunk : i \in DOMAIN emitted} \ {0}) > FetchesPerIteration
    /\ \E i, j \in DOMAIN emitted :
           emitted[i].chunk = emitted[j].chunk /\ emitted[i].tick < emitted[j].tick
                                              /\ emitted[i].chunk > 0

\* C11: a next call on a completed query, or with a non-empty buffer, ends in
\* an exception ("Query buffer not empty" comes first) and leaves the base
\* flag, the pending set, the active block and the point count as they were,
\* with nothing appended.
C11_MisuseSurfaced ==
    [][(phase = "query" /\ (query.m_done \/ lastCall'.passed # << >>)) =>
          /\ thrown' = (IF lastCall'.passed # << >>
                        THEN "Query buffer not empty"
                        ELSE "Called next after query completed")
          /\ query' = query
          /\ emitted' = emitted
          /\ buffer' = lastCall'.passed
          /\ ~lastCall'.returned]_vars

\* C11 witness: a query that emitted records and returned false was called
\* again, with a cleared buffer, and threw.
C11_Witness ==
    /\ phase = "query"
    /\ query.m_done
    /\ emitted # << >>
    /\ lastCall.passed = << >>
    /\ thrown = "Called next after query completed"

\* The other misuse: a running query was handed the records of its previous
\* call and threw.
BufferMisuseSeen ==
    /\ phase = "query"
    /\ ~query.m_done
    /\ lastCall.passed # << >>
    /\ thrown = "Query buffer not empty"

\* A next call that returned false did so with nothing pending and no block.
FalseOnlyWhenDrained ==
    (phase = "query" /\ thrown = "" /\ thrown' = "" /\ ~lastCall'.returned) =>
        query'.m_chunks = {} /\ query'.m_block = << >>

\* A next call after the base pass that returned true either acquired the
\* first pending ids, at most fetchesPerIteration of them, or moved on in
\* the active block.
AcquiresOrAdvances ==
    (phase = "query" /\ thrown = "" /\ ~query.m_base /\ lastCall'.returned) =>
        LET removed == query.m_chunks \ query'.m_chunks
        IN  \/ /\ query.m_block = << >>
               /\ query'.m_chunks \subseteq query.m_chunks
               /\ 1 <= Cardinality(removed)
               /\ Cardinality(removed) <= FetchesPerIteration
               /\ \A a \in removed, b \in query'.m_chunks : a < b
            \/ /\ query.m_block # << >>
               /\ query'.m_chunks = query.m_chunks
               /\ IF query.m_chunkReaderIt = Len(query.m_block[1])
                  THEN query'.m_block = << >>
                  ELSE /\ query'.m_block = query.m_block
                       /\ query'.m_chunkReaderIt = query.m_chunkReaderIt + 1

\* The loop over next has ended: next returned false, or threw.
LoopEnded == thrown # "" \/ (lastCall.made /\ ~lastCall.returned)

----------------------------------------------------------------------------
\* A sparse Chunk shared by builder threads: SparseChunkData::getEntry, one
\* step per statement, interleaved.

\* getEntry calls each thread makes.
MaxCalls == 2

\* The chunk the threads share, and the raw indices they ask for.
SharedId == 4
SharedMaxPoints == 2
SharedIndices == SharedId..(SharedId + SharedMaxPoints - 1)

\* The mutex is taken whatever its state.
MutexIgnored(m) == TRUE

\* std::lock_guard<std::mutex> lock(m_mutex) can go ahead.
MutexFree(m) == m = 0

\* The next Entry allocation: new Entry(data.data()).
NextEntry(h) == Cardinality(h.created) + 1

InitEntry ==
    /\ shared = [built |-> TRUE, pointSize |-> PointSize,
                 m_threshold |-> [num |-> 0, den |-> 1],
                 type |-> Sparse, m_id |-> SharedId, m_maxPoints |-> SharedMaxPoints,
                 m_mutex |-> 0, m_entries |-> << >>]
    /\ threads = IdleThreads
    /\ history = NoHistory
    /\ IdleChunk
    /\ made = NoMade
    /\ IdleReader
    /\ IdleQuery

\* A thread calls Chunk::getEntry(rawIndex) -> SparseChunkData::getEntry.
CallGetEntry(t, rawIndex) ==
    /\ threads[t].pc = "idle"
    /\ threads[t].calls < MaxCalls
    /\ threads' = [threads EXCEPT ![t].pc = "lock", ![t].rawIndex = rawIndex]
    /\ UNCHANGED <<shared, history>>
    /\ UNCHANGED <<chunkVars, readerVars, queryVars>>

\* std::lock_guard<std::mutex> lock(m_mutex)
LockGuard(t) ==
    /\ threads[t].pc = "lock"
    /\ MutexFree(shared.m_mutex)
    /\ shared' = [shared EXCEPT !.m_mutex = t]
    /\ threads' = [threads EXCEPT ![t].pc = "find"]
    /\ UNCHANGED history
    /\ UNCHANGED <<chunkVars, readerVars, queryVars>>

\* auto it(m_entries.find(rawIndex)); if (it == m_entries.end())
Find(t) ==
    /\ threads[t].pc = "find"
    /\ threads' = [threads EXCEPT ![t].pc =
                       IF threads[t].rawIndex \in DOMAIN shared.m_entries
                       THEN "return" ELSE "emplace"]
    /\ UNCHANGED <<shared, history>>
    /\ UNCHANGED <<chunkVars, readerVars, queryVars>>

\* it = m_entries.emplace(rawIndex, SparseEntry(m_schema)).first
EmplaceEntry(t) ==
    /\ threads[t].pc = "emplace"
    /\ LET e == NextEntry(history)
       IN  /\ history' = [history EXCEPT
                            !.created = @ \cup {<<threads[t].rawIndex, e>>}]
           /\ shared' = [shared EXCEPT
                            !.m_entries = Emplace(@, threads[t].rawIndex, e)]
    /\ threads' = [threads EXCEPT ![t].pc = "return"]
    /\ UNCHANGED <<chunkVars, readerVars, queryVars>>

\* return *it->second.entry; the lock_guard goes out of scope.
ReturnEntry(t) ==
    /\ threads[t].pc = "return"
    /\ history' = [history EXCEPT
                      !.returned = @ \cup
                          {<<t, threads[t].rawIndex,
                             shared.m_entries[threads[t].rawIndex]>>}]
    /\ shared' = [shared EXCEPT !.m_mutex = 0]
    /\ threads' = [threads EXCEPT ![t].pc = "idle", ![t].calls = @ + 1]
    /\ UNCHANGED <<chunkVars, readerVars, queryVars>>

NextEntryStep ==
    \/ \E t \in Threads, rawIndex \in SharedIndices : CallGetEntry(t, rawIndex)
    \/ \E t \in Threads : LockGuard(t)
    \/ \E t \in Threads : Find(t)
    \/ \E t \in Threads : EmplaceEntry(t)
    \/ \E t \in Threads : ReturnEntry(t)

SpecEntry == InitEntry /\ [][NextEntryStep]_vars

\* C12: whatever the interleaving, at most one SparseEntry is ever constructed
\* for a raw index, every reference returned for an index is the entry the
\* map holds for it, and every entry constructed is still in the map under
\* its index.
C12_GetEntryIdempotent ==
    /\ \A a, b \in history.created : a[1] = b[1] => a = b
    /\ \A r \in history.returned :
           /\ <<r[2], r[3]>> \in history.created
           /\ r[2] \in DOMAIN shared.m_entries
           /\ shared.m_entries[r[2]] = r[3]
    /\ \A c \in history.created :
           c[1] \in DOMAIN shared.m_entries /\ shared.m_entries[c[1]] = c[2]

\* C12 witness: two threads have got the entry of the same index back, the map
\* holds another index too, and a third thread is inside getEntry while one
\* waits for the mutex.
C12_Witness ==
    /\ \E r1, r2 \in history.returned : r1[1] # r2[1] /\ r1[2] = r2[2]
    /\ Cardinality(DOMAIN shared.m_entries) = SharedMaxPoints
    /\ \E t \in Threads : threads[t].pc = "lock" /\ shared.m_mutex \notin {0, t}

-----------------------------------------------------------------------------
\* SpecThreshold: a Chunk is constructed for a schema and stores its density
\* threshold.

\* Largest Schema::pointSize() explored.
MaxPointSize == 24

\* sizeof(std::size_t) of a 64-bit build.
SizeofSizeT == 8

PointSizes == 1..MaxPointSize

\* getThreshold(schema): both operands of the division are std::size_t, so
\* the quotient is the integer quotient; the return converts it to double.
\* A double is kept as the fraction num / den.
GetThreshold(pointSize) ==
    [num |-> pointSize \div (pointSize + SizeofSizeT), den |-> 1]

InitThreshold ==
    /\ shared = NoChunk
    /\ threads = IdleThreads
    /\ history = NoHistory
    /\ IdleChunk
    /\ made = NoMade
    /\ IdleReader
    /\ IdleQuery

\* Chunk::Chunk(schema, id, maxPoints): sparse unless id is 0.
ChunkNew(pointSize, id, maxPoints) ==
    /\ ~shared.built
    /\ shared' = [built |-> TRUE, pointSize |-> pointSize,
                  m_threshold |-> GetThreshold(pointSize),
                  type |-> IF id # 0 THEN Sparse ELSE Contiguous,
                  m_id |-> id, m_maxPoints |-> maxPoints,
                  m_mutex |-> 0, m_entries |-> << >>]
    /\ UNCHANGED <<threads, history>>
    /\ UNCHANGED <<chunkVars, readerVars, queryVars>>

\* Chunk::Chunk(schema, id, maxPoints, data): the kind comes from the marker
\* at the end of data (ChunkDataFactory::create).
ChunkFromData(pointSize, id, maxPoints, marker) ==
    /\ ~shared.built
    /\ shared' = [built |-> TRUE, pointSize |-> pointSize,
                  m_threshold |-> GetThreshold(pointSize),
                  type |-> marker,
                  m_id |-> id, m_maxPoints |-> maxPoints,
                  m_mutex |-> 0, m_entries |-> << >>]
    /\ UNCHANGED <<threads, history>>
    /\ UNCHANGED <<chunkVars, readerVars, queryVars>>

NextThreshold ==
    \/ \E pointSize \in PointSizes, id \in ChunkIds, maxPoints \in 2..MaxChunkPoints :
           ChunkNew(pointSize, id, maxPoints)
    \/ \E pointSize \in PointSizes, id \in ChunkIds, maxPoints \in 2..MaxChunkPoints,
          marker \in {Sparse, Contiguous} :
           ChunkFromData(pointSize, id, maxPoints, marker)

SpecThreshold == InitThreshold /\ [][NextThreshold]_vars

\* C15: the threshold a constructed Chunk stores is the ratio
\* pointSize / (pointSize + sizeof(size_t)), strictly greater than 0 and
\* strictly less than 1 (3/4 for a 24-byte point).
C15_ThresholdIsRatio ==
    shared.built =>
        LET t == shared.m_threshold IN
        /\ t.num * (shared.pointSize + SizeofSizeT) = shared.pointSize * t.den
        /\ 0 < t.num
        /\ t.num < t.den

\* What the code stores instead: the integer quotient, 0 for every schema.
ThresholdAsCoded ==
    shared.built => shared.m_threshold = [num |-> 0, den |-> 1]

====
